---- MODULE Spec2Model ----
(***************************************************************************)
(* Model of ros2_gremsy's GremsyDriver (src/src/gremsy.cpp): the node's    *)
(* construction (parameters, publishers/subscription, SDK start-up, wait   *)
(* for the gimbal, mode configuration, timers) and its three callbacks     *)
(* (telemetry poll timer, goal push timer, orientation subscription).      *)
(*                                                                         *)
(* The SDK (Serial_Port, Gimbal_Interface) and the middleware (parameter   *)
(* store, topics, executor) are the environment: the gimbal status and the *)
(* telemetry are chosen freely, a parameter read returns a value or        *)
(* throws, and a message published on a topic is queued for every          *)
(* subscription on that topic.                                             *)
(*                                                                         *)
(* Angles: a value in radians is held as an integer count of pi/4, a value *)
(* in degrees as an integer count of degrees, so RAD_TO_DEG is *45 and     *)
(* DEG_TO_RAD is /45 (telemetry yaw angles are multiples of 45 degrees).   *)
(***************************************************************************)
EXTENDS Integers, Sequences, FiniteSets, TLC

\* ---- bounds of the model ------------------------------------------------
\* commands published by other nodes on ~/mount_orientation_local
MaxCmds == 2
\* firings of the telemetry poll timer
MaxStateTicks == 1

\* ---- program constants ---------------------------------------------------
\* gimbal_state_t values compared at gremsy.cpp:66 and :70 (SDK enum)
GIMBAL_STATE_OFF == 0
GIMBAL_STATE_INIT == 1
GIMBAL_STATE_ON == 2
\* history depth of the subscription on ~/mount_orientation_local
QueueDepth == 10

GimbalStates == {GIMBAL_STATE_OFF, GIMBAL_STATE_INIT, GIMBAL_STATE_ON}

\* the twelve fields assigned from get_parameter at gremsy.cpp:25-36
ConfigFields ==
  {"com_port_", "baud_rate_", "state_poll_rate_", "goal_push_rate_",
   "gimbal_mode_", "tilt_axis_input_mode_", "tilt_axis_stabilize_",
   "roll_axis_input_mode_", "roll_axis_stabilize_", "pan_axis_input_mode_",
   "pan_axis_stabilize_", "lock_yaw_to_vehicle_"}

\* parameter values the store may hold (the declared defaults of
\* declareParameters and a few overrides)
Configs ==
  { [f \in ConfigFields |->
       CASE f = "com_port_" -> "/dev/ttyUSB0"
         [] f = "baud_rate_" -> 115200
         [] f = "state_poll_rate_" -> 10
         [] f = "goal_push_rate_" -> 60
         [] f = "gimbal_mode_" -> gm
         [] f = "tilt_axis_input_mode_" -> 0
         [] f = "tilt_axis_stabilize_" -> TRUE
         [] f = "roll_axis_input_mode_" -> 2
         [] f = "roll_axis_stabilize_" -> TRUE
         [] f = "pan_axis_input_mode_" -> 2
         [] f = "pan_axis_stabilize_" -> FALSE
         [] f = "lock_yaw_to_vehicle_" -> lk ]
    : gm \in {1, 2}, lk \in BOOLEAN }

\* orientation vectors (radians, in units of pi/4) carried by messages
Vectors == { [x |-> 0, y |-> 1, z |-> 2], [x |-> 1, y |-> 2, z |-> 0] }

\* mount orientation samples of the SDK (degrees)
Telemetry == { [yaw_absolute |-> 90, yaw |-> 45], [yaw_absolute |-> 45, yaw |-> 45] }

\* values an unwritten yaw_difference_ may hold
YawGarbage == {0 - 1, 0}

NULL == [null |-> TRUE]

VARIABLES
  ctor,               \* which constructor the caller invoked
  pc,                 \* position in the constructor body
  config,             \* the configuration fields read so far
  pubs,               \* the four publishers exist
  sub,                \* desired_mount_orientation_sub_ exists
  serial_port_,       \* "unset" | "started"
  gimbal_interface_,  \* "unset" | "started"
  status,             \* gimbal status mode reported by the SDK
  lastObserved,       \* <<mode>> read last at line 70, <<>> before
  turnOnSent,         \* set_gimbal_motor_mode(TURN_ON) was called
  modeCalls,          \* arguments of the set_gimbal_mode calls
  axesCalls,          \* arguments of the set_gimbal_axes_mode calls
  pool_timer_,        \* telemetry poll timer exists
  goal_timer_,        \* goal push timer exists
  driver,             \* the object handed to the caller, NULL before
  queue,              \* messages waiting in the subscription
  goals_,             \* latest commanded orientation, NULL when unset
  yaw_difference_,    \* running yaw offset (radians)
  pcState,            \* position in gimbalStateTimerCallback
  pcGoal,             \* position in gimbalGoalTimerCallback
  z,                  \* local z of gimbalGoalTimerCallback
  sent,               \* arguments of the last set_gimbal_move, <<>> before
  lastReceived,       \* last message handed to desiredOrientationCallback
  lastTelemetry,      \* mount orientation of the last poll tick
  crashed,            \* the process died on a null dereference
  extCmds,            \* commands published by other nodes so far
  stateTicks          \* telemetry poll ticks so far

vars == <<ctor, pc, config, pubs, sub, serial_port_, gimbal_interface_, status,
          lastObserved, turnOnSent, modeCalls, axesCalls,
          pool_timer_, goal_timer_, driver, queue, goals_, yaw_difference_,
          pcState, pcGoal, z, sent, lastReceived, lastTelemetry, crashed,
          extCmds, stateTicks>>

ctorVars == <<config, pubs, sub, serial_port_, gimbal_interface_,
              lastObserved, turnOnSent, modeCalls, axesCalls, pool_timer_,
              goal_timer_, driver>>
cbVars == <<goals_, yaw_difference_, pcState, pcGoal, z, sent, lastReceived,
            lastTelemetry, crashed, stateTicks>>

Init ==
  /\ ctor \in {"options", "options_com_port"}
  /\ pc = "params"
  /\ config = << >>
  /\ pubs = FALSE
  /\ sub = FALSE
  /\ serial_port_ = "unset"
  /\ gimbal_interface_ = "unset"
  /\ status \in GimbalStates
  /\ lastObserved = << >>
  /\ turnOnSent = FALSE
  /\ modeCalls = << >>
  /\ axesCalls = << >>
  /\ pool_timer_ = FALSE
  /\ goal_timer_ = FALSE
  /\ driver = NULL
  /\ queue = << >>
  /\ goals_ = NULL
  /\ yaw_difference_ \in YawGarbage
  /\ pcState = "idle"
  /\ pcGoal = "idle"
  /\ z = 0
  /\ sent = << >>
  /\ lastReceived = NULL
  /\ lastTelemetry = NULL
  /\ crashed = FALSE
  /\ extCmds = 0
  /\ stateTicks = 0

\* ---- construction (GremsyDriver::GremsyDriver) ---------------------------
\* lines 24-36: declareParameters(), then the twelve get_parameter reads
LoadParameters_Skip ==
  /\ pc = "params"
  /\ \E c \in Configs :
       config' = [f \in ConfigFields \ {"lock_yaw_to_vehicle_"} |-> c[f]]
  /\ pc' = "pubsub"
  /\ UNCHANGED <<ctor, pubs, sub, serial_port_, gimbal_interface_, status,
                 lastObserved, turnOnSent, modeCalls, axesCalls,
                 pool_timer_, goal_timer_, driver, queue, extCmds>>
  /\ UNCHANGED cbVars

LoadParameters ==
  /\ pc = "params"
  /\ \E c \in Configs : config' = c
  /\ pc' = "pubsub"
  /\ UNCHANGED <<ctor, pubs, sub, serial_port_, gimbal_interface_, status,
                 lastObserved, turnOnSent, modeCalls, axesCalls,
                 pool_timer_, goal_timer_, driver, queue, extCmds>>
  /\ UNCHANGED cbVars

\* lines 24-36: a declare_parameter or get_parameter(...).as_*() call throws
\* (name not declared, type mismatch); the exception leaves the constructor
LoadParametersThrows ==
  /\ pc = "params"
  /\ pc' = "threw"
  /\ UNCHANGED <<ctor, status, queue, extCmds>>
  /\ UNCHANGED ctorVars
  /\ UNCHANGED cbVars

\* lines 39-55: four publishers and the subscription
CreatePubSub ==
  /\ pc = "pubsub"
  /\ pubs' = TRUE
  /\ sub' = TRUE
  /\ pc' = "sdk"
  /\ UNCHANGED <<ctor, config, serial_port_, gimbal_interface_, status,
                 lastObserved, turnOnSent, modeCalls, axesCalls,
                 pool_timer_, goal_timer_, driver, queue, extCmds>>
  /\ UNCHANGED cbVars

\* lines 58-64: new Serial_Port / Gimbal_Interface, start() on both
StartSdk ==
  /\ pc = "sdk"
  /\ serial_port_' = "started"
  /\ gimbal_interface_' = "started"
  /\ pc' = "check_off"
  /\ UNCHANGED <<ctor, config, pubs, sub, status, lastObserved,
                 turnOnSent, modeCalls, axesCalls, pool_timer_, goal_timer_,
                 driver, queue, extCmds>>
  /\ UNCHANGED cbVars

\* lines 66-69: if the status is OFF, send TURN_ON
CheckOff ==
  /\ pc = "check_off"
  /\ turnOnSent' = (status = GIMBAL_STATE_OFF)
  /\ pc' = "wait"
  /\ UNCHANGED <<ctor, config, pubs, sub, serial_port_, gimbal_interface_,
                 status, lastObserved, modeCalls, axesCalls, pool_timer_,
                 goal_timer_, driver, queue, extCmds>>
  /\ UNCHANGED cbVars

\* line 70: the loop is left when the mode is not below GIMBAL_STATE_ON
WaitDone_Any(mode) == mode >= GIMBAL_STATE_OFF

WaitDone(mode) == ~(mode < GIMBAL_STATE_ON)

\* lines 70-73: one evaluation of the loop condition (and the sleep)
WaitForOn ==
  /\ pc = "wait"
  /\ lastObserved' = <<status>>
  /\ pc' = IF WaitDone(status) THEN "set_mode" ELSE "wait"
  /\ UNCHANGED <<ctor, config, pubs, sub, serial_port_, gimbal_interface_,
                 status, turnOnSent, modeCalls, axesCalls,
                 pool_timer_, goal_timer_, driver, queue, extCmds>>
  /\ UNCHANGED cbVars

\* line 77: set_gimbal_mode(convertIntGimbalMode(gimbal_mode_))
SetGimbalMode_Default ==
  /\ pc = "set_mode"
  /\ modeCalls' = Append(modeCalls, [convertIntGimbalMode |-> 1])
  /\ pc' = "set_axes"
  /\ UNCHANGED <<ctor, config, pubs, sub, serial_port_, gimbal_interface_,
                 status, lastObserved, turnOnSent, axesCalls,
                 pool_timer_, goal_timer_, driver, queue, extCmds>>
  /\ UNCHANGED cbVars

SetGimbalMode ==
  /\ pc = "set_mode"
  /\ modeCalls' = Append(modeCalls, [convertIntGimbalMode |-> config["gimbal_mode_"]])
  /\ pc' = "set_axes"
  /\ UNCHANGED <<ctor, config, pubs, sub, serial_port_, gimbal_interface_,
                 status, lastObserved, turnOnSent, axesCalls,
                 pool_timer_, goal_timer_, driver, queue, extCmds>>
  /\ UNCHANGED cbVars

\* lines 81-87: one control_gimbal_axis_mode_t
AxisMode(input_mode, stabilize) ==
  [input_mode |-> [convertIntToAxisInputMode |-> input_mode], stabilize |-> stabilize]

\* lines 81-89: set_gimbal_axes_mode(tilt, roll, pan)
SetAxesMode ==
  /\ pc = "set_axes"
  /\ axesCalls' = Append(axesCalls,
       [tilt |-> AxisMode(config["tilt_axis_input_mode_"], config["tilt_axis_stabilize_"]),
        roll |-> AxisMode(config["roll_axis_input_mode_"], config["roll_axis_stabilize_"]),
        pan  |-> AxisMode(config["pan_axis_input_mode_"], config["pan_axis_stabilize_"])])
  /\ pc' = "timers"
  /\ UNCHANGED <<ctor, config, pubs, sub, serial_port_, gimbal_interface_,
                 status, lastObserved, turnOnSent, modeCalls,
                 pool_timer_, goal_timer_, driver, queue, extCmds>>
  /\ UNCHANGED cbVars

\* lines 91-97: both wall timers
CreateTimers ==
  /\ pc = "timers"
  /\ pool_timer_' = TRUE
  /\ goal_timer_' = TRUE
  /\ pc' = "return"
  /\ UNCHANGED <<ctor, config, pubs, sub, serial_port_, gimbal_interface_,
                 status, lastObserved, turnOnSent, modeCalls,
                 axesCalls, driver, queue, extCmds>>
  /\ UNCHANGED cbVars

\* what the object under construction holds
Held ==
  [serial_port_ |-> serial_port_, gimbal_interface_ |-> gimbal_interface_,
   pubs |-> pubs, sub |-> sub, pool_timer_ |-> pool_timer_,
   goal_timer_ |-> goal_timer_]

\* line 100: GremsyDriver(options, com_port) returns the object it built
ReturnConstructed ==
  /\ pc = "return"
  /\ ctor = "options_com_port"
  /\ driver' = Held
  /\ pc' = "done"
  /\ UNCHANGED <<ctor, config, pubs, sub, serial_port_, gimbal_interface_,
                 status, lastObserved, turnOnSent, modeCalls,
                 axesCalls, pool_timer_, goal_timer_, queue, extCmds>>
  /\ UNCHANGED cbVars

\* lines 14-18: GremsyDriver(options) built a temporary at line 17; at the end
\* of that statement the temporary is destroyed (its publishers, subscription
\* and timers go with it, the SDK objects it allocated are never deleted), and
\* the object handed to the caller has com_port_ = "COM3" and nothing else:
\* its raw SDK pointers were never written
ReturnDelegated ==
  /\ pc = "return"
  /\ ctor = "options"
  /\ \E p \in {"null", "garbage"} :
       driver' = [serial_port_ |-> p, gimbal_interface_ |-> p, pubs |-> FALSE,
                  sub |-> FALSE, pool_timer_ |-> FALSE, goal_timer_ |-> FALSE]
  /\ pubs' = FALSE
  /\ sub' = FALSE
  /\ pool_timer_' = FALSE
  /\ goal_timer_' = FALSE
  /\ queue' = << >>
  /\ pc' = "done"
  /\ UNCHANGED <<ctor, config, serial_port_, gimbal_interface_, status,
                 lastObserved, turnOnSent, modeCalls, axesCalls,
                 extCmds>>
  /\ UNCHANGED cbVars

\* ---- environment ----------------------------------------------------------
\* the gimbal changes its status (SDK side); the driver reads the status only
\* at lines 66 and 70, so changes after the wait loop are not followed
GimbalStatusChange ==
  /\ pc \in {"params", "pubsub", "sdk", "check_off", "wait"}
  /\ \E s \in GimbalStates \ {status} : status' = s
  /\ UNCHANGED <<ctor, pc, queue, extCmds>>
  /\ UNCHANGED ctorVars
  /\ UNCHANGED cbVars

\* line 54: the subscription keeps the last QueueDepth messages
Enqueue(q, m) ==
  IF Len(q) >= QueueDepth THEN Append(Tail(q), m) ELSE Append(q, m)

\* another node publishes a command on ~/mount_orientation_local
ExternalPublish ==
  /\ sub
  /\ ~crashed
  /\ extCmds < MaxCmds
  /\ \E v \in Vectors : queue' = Enqueue(queue, [origin |-> "external", vector |-> v])
  /\ extCmds' = extCmds + 1
  /\ UNCHANGED <<ctor, pc, status>>
  /\ UNCHANGED ctorVars
  /\ UNCHANGED cbVars

\* ---- callbacks ------------------------------------------------------------
\* lines 52-55, 91-97: the subscription and both timers are created without a
\* callback group, so they share the node's default, mutually exclusive group:
\* a callback starts only while no other callback of the node is running
CallbackGroupFree_Reentrant == TRUE

CallbackGroupFree == pcState = "idle" /\ pcGoal = "idle"

\* the constructed node is being spun and its process is alive
Spinning == pc = "done" /\ ~crashed

\* line 129: DEG_TO_RAD * d
DegToRad(d) == d \div 45

\* lines 162-164: RAD_TO_DEG * r
RadToDeg(r) == r * 45

\* lines 106-129: read the IMU, the mount status and the mount orientation
\* from the SDK, publish ~/imu and ~/encoder, store the yaw offset
StateTimerPoll ==
  /\ Spinning
  /\ pool_timer_
  /\ pcState = "idle"
  /\ CallbackGroupFree
  /\ stateTicks < MaxStateTicks
  /\ \E mount_orientation \in Telemetry :
       /\ lastTelemetry' = mount_orientation
       /\ yaw_difference_' =
            DegToRad(mount_orientation.yaw_absolute - mount_orientation.yaw)
  /\ stateTicks' = stateTicks + 1
  /\ pcState' = "publish"
  /\ UNCHANGED <<ctor, pc, status, queue, extCmds, goals_, pcGoal, z, sent,
                 lastReceived, crashed>>
  /\ UNCHANGED ctorVars

\* lines 131-149: publish ~/mount_orientation_global and
\* ~/mount_orientation_local; the node's own subscription (line 54) is on
\* ~/mount_orientation_local and receives the message. What its callback,
\* declared for a Vector3Stamped, sees in the published quaternion is not
\* defined by the source: any vector
StateTimerPublish ==
  /\ Spinning
  /\ pcState = "publish"
  /\ \E v \in Vectors :
       queue' = IF sub THEN Enqueue(queue, [origin |-> "driver", vector |-> v])
                ELSE queue
  /\ pcState' = "idle"
  /\ UNCHANGED <<ctor, pc, status, extCmds, goals_, yaw_difference_, pcGoal, z,
                 sent, lastReceived, lastTelemetry, crashed, stateTicks>>
  /\ UNCHANGED ctorVars

\* lines 155, 162, 163: goals_->vector; a null goals_ read without crashing
\* yields anything
Deref(p) == IF p = NULL THEN Vectors ELSE {p.vector}

\* lines 152-155: double z = goals_->vector.z
GoalTimerReadZ ==
  /\ Spinning
  /\ goal_timer_
  /\ pcGoal = "idle"
  /\ CallbackGroupFree
  /\ \E g \in Deref(goals_) : z' = g.z
  /\ pcGoal' = "yaw"
  /\ UNCHANGED <<ctor, pc, status, queue, extCmds, goals_, yaw_difference_,
                 pcState, sent, lastReceived, lastTelemetry, crashed, stateTicks>>
  /\ UNCHANGED ctorVars

\* line 155 with goals_ null: the dereference kills the process
GoalTimerNullCrash ==
  /\ Spinning
  /\ goal_timer_
  /\ pcGoal = "idle"
  /\ CallbackGroupFree
  /\ goals_ = NULL
  /\ crashed' = TRUE
  /\ UNCHANGED <<ctor, pc, status, queue, extCmds, goals_, yaw_difference_,
                 pcState, pcGoal, z, sent, lastReceived, lastTelemetry, stateTicks>>
  /\ UNCHANGED ctorVars

\* lines 157-159: if (lock_yaw_to_vehicle_) z += yaw_difference_
GoalYaw_Always(zz, lock, diff) == zz + diff

GoalYaw(zz, lock, diff) == IF lock THEN zz + diff ELSE zz

GoalTimerYaw ==
  /\ Spinning
  /\ pcGoal = "yaw"
  /\ z' = GoalYaw(z, config["lock_yaw_to_vehicle_"], yaw_difference_)
  /\ pcGoal' = "move"
  /\ UNCHANGED <<ctor, pc, status, queue, extCmds, goals_, yaw_difference_,
                 pcState, sent, lastReceived, lastTelemetry, crashed, stateTicks>>
  /\ UNCHANGED ctorVars

\* lines 161-164: the arguments of set_gimbal_move (tilt, roll, pan)
MoveArgs(g, zz) == <<RadToDeg(g.y), RadToDeg(g.x), RadToDeg(zz)>>

\* lines 161-165: set_gimbal_move(...), return
GoalTimerMove ==
  /\ Spinning
  /\ pcGoal = "move"
  /\ \E g \in Deref(goals_) : sent' = MoveArgs(g, z)
  /\ z' = 0
  /\ pcGoal' = "idle"
  /\ UNCHANGED <<ctor, pc, status, queue, extCmds, goals_, yaw_difference_,
                 pcState, lastReceived, lastTelemetry, crashed, stateTicks>>
  /\ UNCHANGED ctorVars

\* lines 167-171: goals_ = msg
desiredOrientationCallback_First(msg) ==
  goals_' = IF goals_ = NULL THEN msg ELSE goals_

desiredOrientationCallback(msg) == goals_' = msg

\* the executor takes the oldest queued message of the subscription and runs
\* desiredOrientationCallback on it
DeliverMessage ==
  /\ Spinning
  /\ sub
  /\ queue # << >>
  /\ CallbackGroupFree
  /\ desiredOrientationCallback(Head(queue))
  /\ lastReceived' = Head(queue)
  /\ queue' = Tail(queue)
  /\ UNCHANGED <<ctor, pc, status, extCmds, yaw_difference_, pcState, pcGoal,
                 z, sent, lastTelemetry, crashed, stateTicks>>
  /\ UNCHANGED ctorVars

Next ==
  \/ LoadParameters
  \/ LoadParametersThrows
  \/ CreatePubSub
  \/ StartSdk
  \/ CheckOff
  \/ WaitForOn
  \/ SetGimbalMode
  \/ SetAxesMode
  \/ CreateTimers
  \/ ReturnConstructed
  \/ ReturnDelegated
  \/ GimbalStatusChange
  \/ ExternalPublish
  \/ StateTimerPoll
  \/ StateTimerPublish
  \/ GoalTimerReadZ
  \/ GoalTimerNullCrash
  \/ GoalTimerYaw
  \/ GoalTimerMove
  \/ DeliverMessage

Spec == Init /\ [][Next]_vars

\* ---- properties -----------------------------------------------------------
\* a timer exists, or a timer callback is running or has run
TimerCallbackPossible ==
  \/ pool_timer_
  \/ goal_timer_
  \/ pcState # "idle"
  \/ pcGoal # "idle"
  \/ sent # << >>
  \/ lastTelemetry # NULL
  \/ crashed

\* the step on which gimbalGoalTimerCallback calls set_gimbal_move
MoveStep == pcGoal = "move" /\ pcGoal' = "idle"

\* C1: configuration is read before any timer fires: whenever a timer exists
\* or a timer callback runs or has run, all twelve configuration fields have
\* been read from the parameter store.
C1_ConfigReadBeforeTimers ==
  TimerCallbackPossible => DOMAIN config = ConfigFields

C1_Witness ==
  /\ lastTelemetry # NULL
  /\ sent # << >>
  /\ DOMAIN config = ConfigFields

\* C2: last-write-wins: every goal push made once a command has arrived sends
\* pitch and roll of the command desiredOrientationCallback received last, and
\* its yaw (with or without the yaw offset); an older command is not sent again.
C2_LastWriteWins ==
  [][(MoveStep /\ lastReceived # NULL) =>
       /\ sent'[1] = RadToDeg(lastReceived.vector.y)
       /\ sent'[2] = RadToDeg(lastReceived.vector.x)
       /\ sent'[3] \in {RadToDeg(lastReceived.vector.z),
                        RadToDeg(lastReceived.vector.z + yaw_difference_)}]_vars

\* a push of a newer command is under way after an older, different command
\* was pushed
C2_Witness ==
  /\ pcGoal = "move"
  /\ sent # << >>
  /\ lastReceived # NULL
  /\ sent[1] # RadToDeg(lastReceived.vector.y)

\* C3: set_gimbal_mode and set_gimbal_axes_mode are called at most once; once
\* the timers have been created each has been called exactly once, with the
\* values read from the parameters, and no callback adds a call.
C3_ModesAppliedOnce ==
  /\ Len(modeCalls) <= 1
  /\ Len(axesCalls) <= 1
  /\ pc \in {"return", "done"} =>
       /\ modeCalls = << [convertIntGimbalMode |-> config["gimbal_mode_"]] >>
       /\ Len(axesCalls) = 1
       /\ axesCalls[1].tilt.input_mode.convertIntToAxisInputMode = config["tilt_axis_input_mode_"]
       /\ axesCalls[1].tilt.stabilize = config["tilt_axis_stabilize_"]
       /\ axesCalls[1].roll.input_mode.convertIntToAxisInputMode = config["roll_axis_input_mode_"]
       /\ axesCalls[1].roll.stabilize = config["roll_axis_stabilize_"]
       /\ axesCalls[1].pan.input_mode.convertIntToAxisInputMode = config["pan_axis_input_mode_"]
       /\ axesCalls[1].pan.stabilize = config["pan_axis_stabilize_"]

\* both timers and the subscription have run their callbacks, and the gimbal
\* mode was set to a non-default value
C3_Witness ==
  /\ pc = "done"
  /\ sent # << >>
  /\ lastTelemetry # NULL
  /\ lastReceived # NULL
  /\ modeCalls = << [convertIntGimbalMode |-> 2] >>

\* C4: after construction through either constructor the driver object holds
\* a started serial transport handle and gimbal-control handle, its
\* publishers, its subscription and both timers.
C4_DriverOwnsHandles ==
  driver # NULL =>
    /\ driver.serial_port_ = "started"
    /\ driver.gimbal_interface_ = "started"
    /\ driver.pubs
    /\ driver.sub
    /\ driver.pool_timer_
    /\ driver.goal_timer_

YawOffsets == YawGarbage \cup {DegToRad(t.yaw_absolute - t.yaw) : t \in Telemetry}

\* C6: callbacks never interleave: the poll callback and the goal callback
\* are never both in progress, no message is handed to the subscription
\* callback while one of them is, and the three values of one
\* set_gimbal_move call come from one command and one yaw offset.
C6_NoInterleaving ==
  /\ [](~(pcState # "idle" /\ pcGoal # "idle"))
  /\ [][(pcState # "idle" \/ pcGoal # "idle") => UNCHANGED goals_]_vars
  /\ [][(MoveStep /\ goals_ # NULL) =>
          \E d \in YawOffsets :
            sent' = MoveArgs(goals_.vector,
                             GoalYaw(goals_.vector.z, config["lock_yaw_to_vehicle_"], d))]_vars

\* a goal push is in progress while a different command waits in the
\* subscription and the poll timer is still due
C6_Witness ==
  /\ pcGoal = "move"
  /\ goals_ # NULL
  /\ queue # << >>
  /\ Head(queue).vector # goals_.vector
  /\ stateTicks < MaxStateTicks

\* the constructor has gone past the wait loop
PastWait ==
  \/ pc \in {"set_mode", "set_axes", "timers", "return", "done"}
  \/ Len(modeCalls) > 0
  \/ Len(axesCalls) > 0
  \/ TimerCallbackPossible

\* C7: TURN_ON is sent only on the first status read and only if that status
\* is OFF; no mode-setting call, no timer and no callback happens before the
\* driver has read a status of at least GIMBAL_STATE_ON.
C7_WaitsForGimbalOn ==
  /\ [](PastWait => (lastObserved # << >> /\ lastObserved[1] >= GIMBAL_STATE_ON))
  /\ [][(turnOnSent' /\ ~turnOnSent) =>
          (lastObserved = << >> /\ status = GIMBAL_STATE_OFF)]_vars
  /\ [][(status # GIMBAL_STATE_OFF /\ pc = "check_off") => ~turnOnSent']_vars

\* the gimbal was off, TURN_ON was sent, and both timers have fired
C7_Witness ==
  /\ turnOnSent
  /\ sent # << >>
  /\ lastTelemetry # NULL

\* C8: whenever gimbalGoalTimerCallback runs, goals_ holds a message received
\* by desiredOrientationCallback (no null dereference).
C8_GoalPushHasCommand ==
  /\ ~crashed
  /\ pcGoal # "idle" => goals_ # NULL

\* C9: the latest command is overwritten only by commands from outside the
\* driver, never by the driver's own publication on ~/mount_orientation_local.
C9_CommandsOnlyFromOutside ==
  goals_ # NULL => goals_.origin = "external"

====
